---- MODULE Spec2Model ----
(***************************************************************************)
(* Model of the similarity engine of src/src/lib/plagiarism.ts             *)
(* (normalizeText, splitIntoSentences, calculateSimilarity,                *)
(* findMatchingSegments, mergeOverlappingSegments, checkPlagiarism) and of *)
(* the plagiarism_reports table it writes to.                              *)
(*                                                                         *)
(* A text is a sequence of one-character strings.  Character offsets are   *)
(* 0-based and half-open, as in JavaScript.  A percentage that the code    *)
(* rounds to two decimals is held as an integer number of hundredths       *)
(* (10000 = 100.00); the unrounded Jaccard percentage is held as an exact  *)
(* fraction [num, den].  Floating-point rounding error is not modelled.    *)
(***************************************************************************)
EXTENDS Integers, Sequences, FiniteSets, TLC

VARIABLES
    submissions,         \* table submissions: id -> row (or NoRow)
    plagiarism_reports,  \* table plagiarism_reports: sequence of rows
    pc,                  \* position of the checkPlagiarism run
    args,                \* [submissionId, assignmentId] of the run
    currentSubmission,   \* local of checkPlagiarism
    otherSubmissions,    \* local of checkPlagiarism
    peerIdx,             \* position of the for-of loop over otherSubmissions
    allMatchedSegments,  \* local of checkPlagiarism
    reports,             \* local of checkPlagiarism
    insertLog,           \* payloads handed to supabase.insert by the run
    result,              \* value returned by checkPlagiarism
    storeErrors,         \* the errors the store returned to the run (never read)
    reportsAtCall,       \* plagiarism_reports as it was when the run was called
    runCount,            \* number of runs that have returned
    parked,              \* the locals of a second run waiting at an await
    ui,                  \* the state of the PlagiarismReport component
    forms,               \* the SubmissionModal each student has open, if any
    fnIn, fnOut, fnPc    \* inputs, outputs and position of a pure-function run

vars == <<submissions, plagiarism_reports, pc, args, currentSubmission,
          otherSubmissions, peerIdx, allMatchedSegments, reports, insertLog,
          result, storeErrors, reportsAtCall, runCount, parked, ui, forms,
          fnIn, fnOut, fnPc>>

dbVars == <<submissions, plagiarism_reports, pc, args, currentSubmission,
            otherSubmissions, peerIdx, allMatchedSegments, reports, insertLog,
            result, storeErrors, reportsAtCall, runCount, parked, ui, forms>>

\* what a step of one run leaves alone besides its own locals
otherVars == <<runCount, parked, ui, forms, fnIn, fnOut, fnPc>>

fnVars == <<fnIn, fnOut, fnPc>>

-----------------------------------------------------------------------------
(* Characters and small helpers                                            *)

Range(s) == {s[i] : i \in DOMAIN s}

MinOf(S) == CHOOSE x \in S : \A y \in S : x <= y

MaxOf(S) == CHOOSE x \in S : \A y \in S : x >= y

Rep(c, n) == [i \in 1..n |-> c]

\* \s of the regular expressions
Whitespace == {" ", "\n"}

\* the characters of /[.!?]+/
Terminators == {".", "!", "?"}

\* \w of the regular expressions: letters, digits and underscore
WordChars == {"a", "b", "c", "d", "e", "f", "x", "A", "B", "7", "_"}

\* String.prototype.toLowerCase, one character
LowerOf(c) == IF c = "A" THEN "a" ELSE IF c = "B" THEN "b" ELSE c

\* String.prototype.trim
trim(text) ==
    LET ns == {i \in 1..Len(text) : text[i] \notin Whitespace}
    IN  IF ns = {} THEN <<>> ELSE SubSeq(text, MinOf(ns), MaxOf(ns))

\* String.prototype.split(/[seps]+/): the pieces between maximal runs of
\* separator characters, empty pieces at either end included ("" -> [""])
RECURSIVE splitFrom(_, _, _, _, _)
splitFrom(text, seps, i, cur, acc) ==
    IF i > Len(text) THEN Append(acc, cur)
    ELSE IF text[i] \in seps
         THEN IF i > 1 /\ text[i-1] \in seps
              THEN splitFrom(text, seps, i + 1, cur, acc)
              ELSE splitFrom(text, seps, i + 1, <<>>, Append(acc, cur))
         ELSE splitFrom(text, seps, i + 1, Append(cur, text[i]), acc)

split(text, seps) == splitFrom(text, seps, 1, <<>>, <<>>)

\* String.prototype.indexOf: 0-based offset of the first occurrence, or -1
indexOf(text, needle) ==
    LET n == Len(needle)
        hits == {i \in 0..(Len(text) - n) : SubSeq(text, i + 1, i + n) = needle}
    IN  IF hits = {} THEN -1 ELSE MinOf(hits)

-----------------------------------------------------------------------------
(* plagiarism.ts: the pure functions                                       *)

normalizeText(text) ==
    LET lower    == [i \in 1..Len(text) |-> LowerOf(text[i])]
        stripped == SelectSeq(lower, LAMBDA c : c \in WordChars \/ c \in Whitespace)
        keep     == SelectSeq([i \in 1..Len(stripped) |-> i],
                              LAMBDA i : \/ stripped[i] \notin Whitespace
                                         \/ i = 1
                                         \/ stripped[i-1] \notin Whitespace)
        squeezed == [k \in 1..Len(keep) |->
                        IF stripped[keep[k]] \in Whitespace THEN " "
                        ELSE stripped[keep[k]]]
    IN  trim(squeezed)

\* the minimum-length filter of splitIntoSentences
MinSentenceLen == 20

\* KeepSentence with >= for >
KeepSentenceInclusive(s) == Len(s) >= MinSentenceLen

KeepSentence(s) == Len(s) > MinSentenceLen

splitIntoSentences(text) ==
    LET pieces  == split(text, Terminators)
        trimmed == [i \in 1..Len(pieces) |-> trim(pieces[i])]
    IN  SelectSeq(trimmed, KeepSentence)

\* calculateSimilarity with empty words dropped and an empty union scored 0
calculateSimilarityNoEmpty(text1, text2) ==
    LET set1 == Range(split(text1, Whitespace)) \ {<<>>}
        set2 == Range(split(text2, Whitespace)) \ {<<>>}
    IN  IF set1 \cup set2 = {} THEN [num |-> 0, den |-> 1]
        ELSE [num |-> Cardinality(set1 \cap set2) * 100,
              den |-> Cardinality(set1 \cup set2)]

\* calculateSimilarity with the union sized from the word arrays, so that a
\* repeated word counts again
calculateSimilarityArrays(text1, text2) ==
    LET words1 == split(text1, Whitespace)
        words2 == split(text2, Whitespace)
        intersection == Range(words1) \cap Range(words2)
    IN  [num |-> Cardinality(intersection) * 100,
         den |-> Len(words1) + Len(words2) - Cardinality(intersection)]

\* (intersection.size / union.size) * 100, as the exact fraction num/den
calculateSimilarity(text1, text2) ==
    LET words1 == split(text1, Whitespace)
        words2 == split(text2, Whitespace)
        set1 == Range(words1)
        set2 == Range(words2)
        intersection == {x \in set1 : x \in set2}
        union == set1 \cup set2
    IN  [num |-> Cardinality(intersection) * 100, den |-> Cardinality(union)]

\* line 54 with > in place of >=
AtLeastStrict(similarity, threshold) == similarity.num > threshold * similarity.den

\* similarity >= threshold
AtLeast(similarity, threshold) == similarity.num >= threshold * similarity.den

\* segmentOf with 1-based offsets
segmentOfOneBased(originalText, sentence, comparedSubmissionId) ==
    LET startIndex == indexOf(originalText, sentence) + 1
    IN  [text |-> sentence,
         startIndex |-> startIndex,
         endIndex |-> startIndex + Len(sentence),
         matchedSubmissionId |-> comparedSubmissionId]

\* lines 56-63: the segment recorded for a sentence of the original text that
\* matched, at the first occurrence of the sentence in the original text
segmentOf(originalText, sentence, comparedSubmissionId) ==
    LET startIndex == indexOf(originalText, sentence)
    IN  [text |-> sentence,
         startIndex |-> startIndex,
         endIndex |-> startIndex + Len(sentence),
         matchedSubmissionId |-> comparedSubmissionId]

\* lines 52-65: what one pair of sentences adds to matches
matchPair(originalText, sentence, comparedSentence, comparedSubmissionId, threshold) ==
    LET normalizedSentence == normalizeText(sentence)
        normalizedCompared == normalizeText(comparedSentence)
        similarity == calculateSimilarity(normalizedSentence, normalizedCompared)
        segment == segmentOf(originalText, sentence, comparedSubmissionId)
    IN  IF AtLeast(similarity, threshold) /\ segment.startIndex # -1
        THEN <<segment>>
        ELSE <<>>

\* the nested loops of lines 48-67, from pair (i, j) on
RECURSIVE matchFrom(_, _, _, _, _, _, _, _)
matchFrom(originalText, originalSentences, comparedSentences, comparedSubmissionId, threshold, i, j, matches) ==
    IF i > Len(originalSentences) THEN matches
    ELSE IF j > Len(comparedSentences)
         THEN matchFrom(originalText, originalSentences, comparedSentences,
                        comparedSubmissionId, threshold, i + 1, 1, matches)
         ELSE matchFrom(originalText, originalSentences, comparedSentences,
                        comparedSubmissionId, threshold, i, j + 1,
                        matches \o matchPair(originalText, originalSentences[i],
                                             comparedSentences[j],
                                             comparedSubmissionId, threshold))

\* the default of the threshold parameter
DefaultThreshold == 70

findMatchingSegments(originalText, comparedText, comparedSubmissionId, threshold) ==
    matchFrom(originalText, splitIntoSentences(originalText),
              splitIntoSentences(comparedText), comparedSubmissionId,
              threshold, 1, 1, <<>>)

\* sortByStart with the sort left out
sortByStartNoSort(segments) == [k \in 1..Len(segments) |-> k]

\* [...segments].sort((a, b) => a.startIndex - b.startIndex): the positions
\* of the array in ascending startIndex order; the sort is stable
sortByStart(segments) ==
    LET n == Len(segments)
        rank(i) == Cardinality({j \in 1..n :
                       \/ segments[j].startIndex < segments[i].startIndex
                       \/ /\ segments[j].startIndex = segments[i].startIndex
                          /\ j < i}) + 1
    IN  [k \in 1..n |-> CHOOSE i \in 1..n : rank(i) = k]

\* touches with < for <=: spans that only touch are kept apart
touchesStrict(current, last) == current.startIndex < last.endIndex

\* the test of line 82: current touches or overlaps the last merged span
touches(current, last) == current.startIndex <= last.endIndex

\* extend with the end of current taken as it is, not the larger end
extendNoMax(last, current) ==
    [last EXCEPT !.endIndex = current.endIndex,
                 !.text = last.text \o <<" ">> \o current.text]

\* lines 83-84: the last merged span after taking current in
extend(last, current) ==
    [last EXCEPT !.endIndex = IF last.endIndex >= current.endIndex
                              THEN last.endIndex ELSE current.endIndex,
                 !.text = last.text \o <<" ">> \o current.text]

\* the loop of lines 78-88.  objs are the segment objects of the caller's
\* array (the copy of line 75 is shallow, so line 83 writes to them);
\* sorted and merged hold positions of objs
RECURSIVE mergeLoop(_, _, _, _)
mergeLoop(sorted, i, objs, merged) ==
    IF i > Len(sorted) THEN [objs |-> objs, merged |-> merged]
    ELSE LET current == objs[sorted[i]]
             lastAt  == merged[Len(merged)]
             last    == objs[lastAt]
         IN  IF touches(current, last)
             THEN mergeLoop(sorted, i + 1,
                            [objs EXCEPT ![lastAt] = extend(last, current)],
                            merged)
             ELSE mergeLoop(sorted, i + 1, objs, Append(merged, sorted[i]))

mergeRun(segments) ==
    IF Len(segments) = 0 THEN [objs |-> segments, merged |-> <<>>]
    ELSE LET sorted == sortByStart(segments)
         IN  mergeLoop(sorted, 2, segments, <<sorted[1]>>)

\* the array mergeOverlappingSegments returns
mergeOverlappingSegments(segments) ==
    LET r == mergeRun(segments)
    IN  [k \in 1..Len(r.merged) |-> r.objs[r.merged[k]]]

\* the caller's segment objects once mergeOverlappingSegments has returned
segmentsAfterMerge(segments) == mergeRun(segments).objs

-----------------------------------------------------------------------------
(* Bounds of the pure-function runs                                        *)

\* longest input text of a normalizeText / calculateSimilarity run
MaxTextLen == 3

SimAlphabet == {"a", "b", "A", " ", ","}

SimTexts == UNION {[1..n -> SimAlphabet] : n \in 0..MaxTextLen}

\* null / undefined
Null == [null |-> TRUE]

\* part_001 lines 14-16: the useState defaults of PlagiarismReport
NoUi == [reports |-> <<>>, overallScore |-> Null, highlightedContent |-> <<>>]

\* the students whose submission forms are modelled
Students == {1, 2}

\* no student has the SubmissionModal open
NoForms == [st \in Students |-> Null]

\* the locals of checkPlagiarism before the call
NoRun ==
    /\ pc = "idle"
    /\ args = Null
    /\ currentSubmission = Null
    /\ otherSubmissions = <<>>
    /\ peerIdx = 0
    /\ allMatchedSegments = <<>>
    /\ reports = <<>>
    /\ insertLog = <<>>
    /\ result = Null
    /\ storeErrors = {}
    /\ reportsAtCall = <<>>
    /\ runCount = 0
    /\ parked = Null
    /\ ui = NoUi
    /\ forms = NoForms

\* the checkPlagiarism variables while no run is modelled
DbIdle ==
    /\ submissions = <<>>
    /\ plagiarism_reports = <<>>
    /\ NoRun

-----------------------------------------------------------------------------
(* SpecSim: normalizeText and calculateSimilarity on all short texts       *)

InitSim ==
    /\ DbIdle
    /\ fnIn \in [a : SimTexts, b : SimTexts]
    /\ fnOut = <<>>
    /\ fnPc = "input"

\* findMatchingSegments lines 49 and 52: both sides are normalized first
SimNormalize ==
    /\ fnPc = "input"
    /\ fnOut' = [n1 |-> normalizeText(fnIn.a), n2 |-> normalizeText(fnIn.b)]
    /\ fnPc' = "normalized"
    /\ UNCHANGED <<fnIn, dbVars>>

\* findMatchingSegments line 53, on (n1, n2), (n2, n1) and (n1, n1)
SimCalculate ==
    /\ fnPc = "normalized"
    /\ fnOut' = [n1   |-> fnOut.n1,
                 n2   |-> fnOut.n2,
                 sim  |-> calculateSimilarity(fnOut.n1, fnOut.n2),
                 rev  |-> calculateSimilarity(fnOut.n2, fnOut.n1),
                 self |-> calculateSimilarity(fnOut.n1, fnOut.n1)]
    /\ fnPc' = "scored"
    /\ UNCHANGED <<fnIn, dbVars>>

NextSim == SimNormalize \/ SimCalculate

SpecSim == InitSim /\ [][NextSim]_vars

\* the distinct non-empty whitespace-delimited words of a string
WordsOf(s) ==
    {SubSeq(s, p[1], p[2]) :
        p \in {q \in (1..Len(s)) \X (1..Len(s)) :
                 /\ q[1] <= q[2]
                 /\ \A k \in q[1]..q[2] : s[k] \notin Whitespace
                 /\ q[1] = 1 \/ s[q[1] - 1] \in Whitespace
                 /\ q[2] = Len(s) \/ s[q[2] + 1] \in Whitespace}}

\* C6: calculateSimilarity of two empty normalized strings is 0 (with a
\* non-zero divisor), and of two normalized strings sharing no word is 0.
C6_EmptyOrDisjointIsZero ==
    fnPc = "scored" =>
        /\ fnOut.sim.den > 0
        /\ (fnOut.n1 = <<>> /\ fnOut.n2 = <<>>) => fnOut.sim.num = 0
        /\ (WordsOf(fnOut.n1) \cap WordsOf(fnOut.n2) = {}) => fnOut.sim.num = 0

\* C7: for every text a, empty and normalizing-to-empty texts included,
\* calculateSimilarity(normalizeText(a), normalizeText(a)) is 100.
C7_SelfSimilarityIs100 ==
    fnPc = "scored" =>
        /\ fnOut.self.den > 0
        /\ fnOut.self.num = 100 * fnOut.self.den

\* a text that is not empty but normalizes to the empty string was scored
C7_Witness ==
    /\ fnPc = "scored"
    /\ fnIn.a # <<>>
    /\ fnOut.n1 = <<>>
    /\ fnOut.self.num = 100 * fnOut.self.den

\* C8: with a non-empty union of words, calculateSimilarity(A, B) is
\* 100 * |words(A) \cap words(B)| / |words(A) \cup words(B)| over the sets of
\* distinct words; it lies in [0, 100], is symmetric, and depends on the
\* word sets only (equal word sets score 100 whatever the order or count).
C8_JaccardOverWordSets ==
    LET wa == WordsOf(fnOut.n1)
        wb == WordsOf(fnOut.n2)
    IN  (fnPc = "scored" /\ wa \cup wb # {}) =>
            /\ fnOut.sim.den > 0
            /\ fnOut.sim.num * Cardinality(wa \cup wb)
                 = 100 * Cardinality(wa \cap wb) * fnOut.sim.den
            /\ 0 <= fnOut.sim.num /\ fnOut.sim.num <= 100 * fnOut.sim.den
            /\ fnOut.rev.num * fnOut.sim.den = fnOut.sim.num * fnOut.rev.den
            /\ (wa = wb) => fnOut.sim.num = 100 * fnOut.sim.den

\* two different normalized strings with the same word set (a reordering or
\* a repetition) were scored 100
C8_Witness ==
    /\ fnPc = "scored"
    /\ fnOut.n1 # fnOut.n2
    /\ WordsOf(fnOut.n1) = WordsOf(fnOut.n2)
    /\ WordsOf(fnOut.n1) # {}
    /\ fnOut.sim.num = 100 * fnOut.sim.den

-----------------------------------------------------------------------------
(* SpecMerge: mergeOverlappingSegments on all short lists of segments      *)

\* largest endIndex of an input segment of a mergeOverlappingSegments run
MaxPos == 5

\* longest input list of a mergeOverlappingSegments run
MaxSegs == 3

SampleText == [i \in 1..MaxPos |-> IF i % 2 = 1 THEN "a" ELSE "b"]

SegPool ==
    {[text |-> SubSeq(SampleText, p[1] + 1, p[2]), startIndex |-> p[1],
      endIndex |-> p[2], matchedSubmissionId |-> 1] :
        p \in {q \in (0..MaxPos) \X (0..MaxPos) : q[1] < q[2]}}

SegLists == UNION {[1..n -> SegPool] : n \in 0..MaxSegs}

InitMerge ==
    /\ DbIdle
    /\ fnIn \in [segments : SegLists]
    /\ fnOut = <<>>
    /\ fnPc = "input"

\* checkPlagiarism line 152
MergeSegments ==
    /\ fnPc = "input"
    /\ fnOut' = [merged |-> mergeOverlappingSegments(fnIn.segments),
                 after  |-> segmentsAfterMerge(fnIn.segments)]
    /\ fnPc' = "merged"
    /\ UNCHANGED <<fnIn, dbVars>>

NextMerge == MergeSegments

SpecMerge == InitMerge /\ [][NextMerge]_vars

\* the character positions covered by a list of segments
Covered(segments) ==
    UNION {segments[i].startIndex..(segments[i].endIndex - 1) : i \in DOMAIN segments}

\* C4: the output of mergeOverlappingSegments is sorted by startIndex, each
\* span starts strictly after the previous span's endIndex, the output
\* covers exactly the positions the input covers, and [] yields [].
C4_MergeSortedDisjointSameCover ==
    fnPc = "merged" =>
        LET out == fnOut.merged
        IN  /\ \A k \in 2..Len(out) :
                 /\ out[k-1].startIndex <= out[k].startIndex
                 /\ out[k].startIndex > out[k-1].endIndex
            /\ Covered(out) = Covered(fnIn.segments)
            /\ fnIn.segments = <<>> => out = <<>>

\* three segments, two of them overlapping and out of order, gave two spans
C4_Witness ==
    /\ fnPc = "merged"
    /\ Len(fnIn.segments) = 3
    /\ fnIn.segments[1].startIndex > fnIn.segments[2].startIndex
    /\ fnIn.segments[1].startIndex < fnIn.segments[2].endIndex
    /\ fnIn.segments[1].endIndex > fnIn.segments[2].endIndex
    /\ Len(fnOut.merged) = 2

\* C5 as stated: any non-empty list of segments all contained in a span
\* [s,e) merges to exactly one span equal to [s,e).
C5_ContainedMergesToSpan ==
    (fnPc = "merged" /\ fnIn.segments # <<>>) =>
        \A s \in 0..MaxPos, e \in 0..MaxPos :
            (s < e /\ Covered(fnIn.segments) \subseteq s..(e - 1)) =>
                /\ Len(fnOut.merged) = 1
                /\ fnOut.merged[1].startIndex = s
                /\ fnOut.merged[1].endIndex = e

\* C5 amended: a non-empty list of segments that are all contained in
\* [s,e) and together cover every position of [s,e) merges to exactly one
\* span, equal to [s,e).
C5_CoveringMergesToSpan ==
    (fnPc = "merged" /\ fnIn.segments # <<>>) =>
        \A s \in 0..MaxPos, e \in 0..MaxPos :
            (s < e /\ Covered(fnIn.segments) = s..(e - 1)) =>
                /\ Len(fnOut.merged) = 1
                /\ fnOut.merged[1].startIndex = s
                /\ fnOut.merged[1].endIndex = e

\* segments that only touch, none of them the whole span, gave one span
C5_Witness ==
    /\ fnPc = "merged"
    /\ Len(fnIn.segments) >= 2
    /\ \E s \in 0..MaxPos, e \in 0..MaxPos :
          /\ s < e
          /\ Covered(fnIn.segments) = s..(e - 1)
          /\ \A i \in DOMAIN fnIn.segments :
                fnIn.segments[i].endIndex - fnIn.segments[i].startIndex < e - s
          /\ \A i, j \in DOMAIN fnIn.segments :
                i # j => (fnIn.segments[i].startIndex..(fnIn.segments[i].endIndex - 1))
                           \cap (fnIn.segments[j].startIndex..(fnIn.segments[j].endIndex - 1)) = {}
    /\ Len(fnOut.merged) = 1

-----------------------------------------------------------------------------
(* SpecMatch: splitIntoSentences and findMatchingSegments on texts built   *)
(* from sentence-sized pieces                                              *)

Sp == <<" ">>

\* "aaaaaa bbbbbb ccccccc": 21 characters, three words
SentA == Rep("a", 6) \o Sp \o Rep("b", 6) \o Sp \o Rep("c", 7)

\* "aaaaaa bbbbbb cccccc": exactly 20 characters
SentA20 == Rep("a", 6) \o Sp \o Rep("b", 6) \o Sp \o Rep("c", 6)

\* "xx aaaaaa bbbbbb ccccccc": SentA inside a longer sentence (3 of 4 words)
SentAx == <<"x", "x">> \o Sp \o SentA

\* "Aaaaaa, bbbbbb  ccccccc": normalizes to SentA
SentAcap == <<"A">> \o Rep("a", 5) \o <<",">> \o Sp \o Rep("b", 6) \o Sp \o Sp \o Rep("c", 7)

\* "dddddd eeeeee fffffff": 21 characters, no word in common with SentA
SentD == Rep("d", 6) \o Sp \o Rep("e", 6) \o Sp \o Rep("f", 7)

\* 21 characters of punctuation: normalize to the empty string
SentDash == Rep("-", 21)

SentComma == Rep(",", 21)

Short == <<"a", "b">>

OrigPieces == {SentA, SentA20, SentAx, SentD, SentDash, Short}

OrigSeps == {<<".", " ">>, <<"!", "?">>}

\* most pieces of an original text of a findMatchingSegments run
MaxPieces == 2

RECURSIVE TextsOf(_, _, _)
TextsOf(pieces, seps, k) ==
    IF k = 0 THEN {<<>>}
    ELSE IF k = 1 THEN pieces
    ELSE {t \o s \o p : t \in TextsOf(pieces, seps, k - 1), s \in seps, p \in pieces}

OrigTexts == UNION {TextsOf(OrigPieces, OrigSeps, k) : k \in 0..MaxPieces}

ComparedTexts ==
    UNION {TextsOf({SentA, SentAcap, SentComma}, {<<".", "\n">>}, k) : k \in 0..2}

Thresholds == {0, DefaultThreshold, 75, 76}

InitMatch ==
    /\ DbIdle
    /\ fnIn \in [originalText : OrigTexts, comparedText : ComparedTexts,
                 comparedSubmissionId : {1}, threshold : Thresholds]
    /\ fnOut = <<>>
    /\ fnPc = "input"

\* findMatchingSegments lines 45-46
MatchSplit ==
    /\ fnPc = "input"
    /\ fnOut' = [originalSentences |-> splitIntoSentences(fnIn.originalText),
                 comparedSentences |-> splitIntoSentences(fnIn.comparedText)]
    /\ fnPc' = "split"
    /\ UNCHANGED <<fnIn, dbVars>>

\* findMatchingSegments lines 44-69
MatchFind ==
    /\ fnPc = "split"
    /\ fnOut' = [originalSentences |-> fnOut.originalSentences,
                 comparedSentences |-> fnOut.comparedSentences,
                 matches |-> findMatchingSegments(fnIn.originalText, fnIn.comparedText,
                                                  fnIn.comparedSubmissionId, fnIn.threshold)]
    /\ fnPc' = "matched"
    /\ UNCHANGED <<fnIn, dbVars>>

NextMatch == MatchSplit \/ MatchFind

SpecMatch == InitMatch /\ [][NextMatch]_vars

\* C9: every segment returned by findMatchingSegments satisfies
\* 0 <= startIndex < endIndex <= length(originalText).
C9_SegmentsWithinText ==
    fnPc = "matched" =>
        \A k \in DOMAIN fnOut.matches :
            /\ 0 <= fnOut.matches[k].startIndex
            /\ fnOut.matches[k].startIndex < fnOut.matches[k].endIndex
            /\ fnOut.matches[k].endIndex <= Len(fnIn.originalText)

\* a match was recorded for the last sentence of a text of two sentences:
\* its segment ends at the end of the text
C9_Witness ==
    /\ fnPc = "matched"
    /\ Len(fnOut.originalSentences) = 2
    /\ \E k \in DOMAIN fnOut.matches :
          /\ fnOut.matches[k].endIndex = Len(fnIn.originalText)
          /\ fnOut.matches[k].startIndex > 0

\* the first positions of the maximal terminator-free stretches of a text
BlockStarts(text) ==
    {i \in 1..Len(text) : /\ text[i] \notin Terminators
                          /\ i = 1 \/ text[i-1] \in Terminators}

\* the last position of the stretch that starts at i
BlockEnd(text, i) ==
    MinOf({k \in i..Len(text) : text[k] \in Terminators} \cup {Len(text) + 1}) - 1

\* a stretch without its leading and trailing whitespace
TrimmedBlock(text, i) ==
    LET ns == {k \in i..BlockEnd(text, i) : text[k] \notin Whitespace}
    IN  IF ns = {} THEN <<>> ELSE SubSeq(text, MinOf(ns), MaxOf(ns))

\* in order of appearance, the trimmed stretches of at least minLen characters
PiecesOfAtLeast(text, minLen) ==
    LET kept == {i \in BlockStarts(text) : Len(TrimmedBlock(text, i)) >= minLen}
        nth(k) == CHOOSE i \in kept : Cardinality({j \in kept : j < i}) = k - 1
    IN  [k \in 1..Cardinality(kept) |-> TrimmedBlock(text, nth(k))]

\* C10 as stated: splitIntoSentences returns, in order, exactly the trimmed
\* pieces between runs of '.', '!' and '?' of at least 20 characters (a
\* piece of exactly 20 characters is kept).
C10_KeepsPiecesOf20 ==
    fnPc \in {"split", "matched"} =>
        /\ fnOut.originalSentences = PiecesOfAtLeast(fnIn.originalText, MinSentenceLen)
        /\ fnOut.comparedSentences = PiecesOfAtLeast(fnIn.comparedText, MinSentenceLen)

\* C10 amended: splitIntoSentences returns, in order, exactly the trimmed
\* pieces between runs of '.', '!' and '?' of more than 20 characters: a
\* piece is discarded if and only if it has 20 characters or fewer.
C10_KeepsPiecesLongerThan20 ==
    fnPc \in {"split", "matched"} =>
        /\ fnOut.originalSentences = PiecesOfAtLeast(fnIn.originalText, MinSentenceLen + 1)
        /\ fnOut.comparedSentences = PiecesOfAtLeast(fnIn.comparedText, MinSentenceLen + 1)

\* a text with a piece of exactly 20 characters and a piece of 21 was split:
\* only the piece of 21 was returned
C10_Witness ==
    /\ fnPc = "split"
    /\ \E i \in BlockStarts(fnIn.originalText) :
          Len(TrimmedBlock(fnIn.originalText, i)) = MinSentenceLen
    /\ Len(fnOut.originalSentences) = 1
    /\ Len(fnOut.originalSentences[1]) = MinSentenceLen + 1

-----------------------------------------------------------------------------
(* Spec: one run of checkPlagiarism over a submissions table               *)

\* number of rows of the submissions table
NumSubs == 3

SubmissionIds == 1..NumSubs

AssignmentIds == {1, 2}

\* "aaaaaa bbbbbb ccccccc xx": SentA and one more word (3 of 4 words)
SentAy == SentA \o Sp \o <<"x", "x">>

\* "aaaaaa bbbbbb ccccccc xx! aaaaaa bbbbbb ccccccc": the second sentence
\* first occurs inside the first one
NestedA == SentAy \o <<"!", " ">> \o SentA

Contents == {<<>>, SentA, NestedA, SentD}

\* Math.round(x * 100) / 100 for x = 100 * n / d, in hundredths
round2(n, d) == (20000 * n + d) \div (2 * d)

\* totalChars with every character counted once, however many matches cover it
totalCharsOnce(matches) ==
    Cardinality(UNION {matches[i].startIndex..(matches[i].endIndex - 1) :
                         i \in DOMAIN matches})

\* matches.reduce((sum, m) => sum + (m.endIndex - m.startIndex), 0)
RECURSIVE totalChars(_)
totalChars(matches) ==
    IF matches = <<>> THEN 0
    ELSE totalChars(Tail(matches)) + (Head(matches).endIndex - Head(matches).startIndex)

\* CHECK (similarity_score >= 0 AND similarity_score <= 100)
scoreCheck(row) == row.similarity_score >= 0 /\ row.similarity_score <= 10000

\* line 158 without the sort: the reports in the order they were built
sortByScoreDescNoSort(rs) == [k \in 1..Len(rs) |-> k]

\* reports.sort((a, b) => b.similarity_score - a.similarity_score): the
\* positions of the array in descending score order; the sort is stable
sortByScoreDesc(rs) ==
    LET n == Len(rs)
        rank(i) == Cardinality({j \in 1..n :
                       \/ rs[j].similarity_score > rs[i].similarity_score
                       \/ /\ rs[j].similarity_score = rs[i].similarity_score
                          /\ j < i}) + 1
    IN  [k \in 1..n |-> CHOOSE i \in 1..n : rank(i) = k]

\* the orders in which the store may return a set of rows
Orders(S) == {o \in [1..Cardinality(S) -> S] : \A i, j \in DOMAIN o : i # j => o[i] # o[j]}

\* the rows a submission is drawn from: every content as an eligible peer of
\* assignment 1, and a draft, a graded and an other-assignment submission
Rows ==
    [assignment_id : {1}, content : Contents, status : {"submitted"}]
    \cup {[assignment_id |-> 1, content |-> SentA, status |-> "draft"],
          [assignment_id |-> 1, content |-> NestedA, status |-> "graded"],
          [assignment_id |-> 2, content |-> SentA, status |-> "submitted"]}

Init ==
    /\ submissions \in [SubmissionIds -> Rows]
    /\ plagiarism_reports = <<>>
    /\ NoRun
    /\ fnIn = Null
    /\ fnOut = Null
    /\ fnPc = "unused"

\* the call checkPlagiarism(submissionId, assignmentId); NumSubs + 1 is the
\* id of no row
StartCheck ==
    /\ pc = "idle"
    /\ \E sid \in 1..(NumSubs + 1), aid \in AssignmentIds :
          args' = [submissionId |-> sid, assignmentId |-> aid]
    /\ pc' = "fetchCurrent"
    /\ storeErrors' = {}
    /\ reportsAtCall' = plagiarism_reports
    /\ UNCHANGED <<submissions, plagiarism_reports, currentSubmission,
                   otherSubmissions, peerIdx, allMatchedSegments, reports,
                   insertLog, result, otherVars>>

\* line 100 with the test of the content left out
notFound(data) == data = Null

\* line 100: !currentSubmission || !currentSubmission.content
notFoundOrEmpty(data) == data = Null \/ data.content = <<>>

\* lines 94-102; a failed request leaves data null
FetchCurrent ==
    /\ pc = "fetchCurrent"
    /\ \E ok \in BOOLEAN :
          LET data == IF ok /\ args.submissionId \in DOMAIN submissions
                      THEN [content |-> submissions[args.submissionId].content]
                      ELSE Null
          IN  /\ storeErrors' = IF ok THEN storeErrors
                                 ELSE storeErrors \cup {[op |-> "fetchCurrent", at |-> 0]}
              /\ IF notFoundOrEmpty(data)
                 THEN /\ result' = [error |-> "Submission not found or empty"]
                      /\ pc' = "done"
                      /\ UNCHANGED currentSubmission
                 ELSE /\ currentSubmission' = data
                      /\ pc' = "fetchPeers"
                      /\ UNCHANGED result
    /\ UNCHANGED <<submissions, plagiarism_reports, args, otherSubmissions,
                   peerIdx, allMatchedSegments, reports, insertLog,
                   reportsAtCall, otherVars>>

\* line 111 with the length test left out
noPeersNever(data) == FALSE

\* line 111: !otherSubmissions || otherSubmissions.length === 0 (null and the
\* empty array are both held as the empty sequence)
noPeers(data) == data = <<>>

\* lines 107-109 with the .neq('id', submissionId) filter left out
peerRowAnyId(id, a) ==
    /\ submissions[id].assignment_id = a.assignmentId
    /\ submissions[id].status = "submitted"

\* lines 107-109: the filters of the peer query
peerRow(id, a) ==
    /\ submissions[id].assignment_id = a.assignmentId
    /\ id # a.submissionId
    /\ submissions[id].status = "submitted"

\* lines 104-120; the store returns the rows in an order of its choosing
FetchPeers ==
    /\ pc = "fetchPeers"
    /\ \E ok \in BOOLEAN :
          LET hits == {id \in DOMAIN submissions : peerRow(id, args)}
          IN  \E o \in Orders(hits) :
                LET data == IF ok
                            THEN [k \in 1..Len(o) |->
                                    [id |-> o[k], content |-> submissions[o[k]].content]]
                            ELSE <<>>
                IN  /\ storeErrors' = IF ok THEN storeErrors
                                       ELSE storeErrors \cup {[op |-> "fetchPeers", at |-> 0]}
                    /\ IF noPeers(data)
                       THEN /\ result' = [overallSimilarity |-> 0,
                                          reports |-> <<>>,
                                          message |-> "No other submissions to compare against"]
                            /\ pc' = "done"
                            /\ UNCHANGED <<otherSubmissions, peerIdx>>
                       ELSE /\ otherSubmissions' = data
                            /\ peerIdx' = 1
                            /\ pc' = "loop"
                            /\ UNCHANGED result
    /\ UNCHANGED <<submissions, plagiarism_reports, args, currentSubmission,
                   allMatchedSegments, reports, insertLog, reportsAtCall, otherVars>>

\* the report of lines 137-141 and 144-147 for one peer with matches
reportFor(content, otherSubmission, matches) ==
    [compared_submission_id |-> otherSubmission.id,
     similarity_score |-> round2(totalChars(matches), Len(content)),
     matched_content |-> matches]

\* line 131 with the test left out
hasMatchesAlways(matches) == TRUE

\* line 131: matches.length > 0
hasMatches(matches) == Len(matches) > 0

\* lines 122-143: one iteration of the loop, up to the await of the insert
\* (the one-element set binds matches to its value)
ComparePeer ==
    /\ pc = "loop"
    /\ peerIdx <= Len(otherSubmissions)
    /\ LET otherSubmission == otherSubmissions[peerIdx]
       IN  \E matches \in {IF otherSubmission.content = <<>> THEN <<>>
                           ELSE findMatchingSegments(currentSubmission.content,
                                                     otherSubmission.content,
                                                     otherSubmission.id,
                                                     DefaultThreshold)} :
             IF hasMatches(matches)
             THEN \E report \in {reportFor(currentSubmission.content,
                                           otherSubmission, matches)} :
                    /\ allMatchedSegments' = allMatchedSegments \o matches
                    /\ reports' = Append(reports, report)
                    /\ insertLog' = Append(insertLog,
                                       [submission_id |-> args.submissionId] @@ report)
                    /\ pc' = "insert"
                    /\ UNCHANGED peerIdx
             ELSE /\ peerIdx' = peerIdx + 1
                  /\ UNCHANGED <<allMatchedSegments, reports, insertLog, pc>>
    /\ UNCHANGED <<submissions, plagiarism_reports, args, currentSubmission,
                   otherSubmissions, result, storeErrors, reportsAtCall, otherVars>>

\* the await of line 143 throwing on an error: the run ends there
afterInsertThrow(stored) == IF stored THEN "loop" ELSE "done"

\* lines 143-149: the loop goes on whatever the insert returned
afterInsert(stored) == "loop"

\* lines 143-148: the store takes the row unless the request fails or the
\* row violates the CHECK of similarity_score; the result is not looked at
InsertReport ==
    /\ pc = "insert"
    /\ \E ok \in BOOLEAN :
          LET row == insertLog[Len(insertLog)]
          IN  /\ plagiarism_reports' = IF ok /\ scoreCheck(row)
                                       THEN Append(plagiarism_reports, row)
                                       ELSE plagiarism_reports
              /\ storeErrors' = IF ok /\ scoreCheck(row) THEN storeErrors
                                 ELSE storeErrors \cup
                                        {[op |-> IF ok THEN "insertCheck" ELSE "insert",
                                          at |-> Len(insertLog)]}
              /\ pc' = afterInsert(ok /\ scoreCheck(row))
    /\ peerIdx' = peerIdx + 1
    /\ UNCHANGED <<submissions, args, currentSubmission, otherSubmissions,
                   allMatchedSegments, reports, insertLog, result,
                   reportsAtCall, otherVars>>

\* the number of segments pushed to allMatchedSegments before those of report k
RECURSIVE segmentsBefore(_, _)
segmentsBefore(rs, k) ==
    IF k = 1 THEN 0
    ELSE segmentsBefore(rs, k - 1) + Len(rs[k - 1].matched_content)

\* report k of the run once mergeOverlappingSegments has run: its
\* matched_content holds the very objects of allMatchedSegments
reportAfterMerge(rs, objs, k) ==
    [rs[k] EXCEPT !.matched_content =
        [i \in 1..Len(rs[k].matched_content) |-> objs[segmentsBefore(rs, k) + i]]]

\* lines 152-160 (the one-element sets bind each local to its value)
Finish ==
    /\ pc = "loop"
    /\ peerIdx > Len(otherSubmissions)
    /\ \E mergedSegments \in {mergeOverlappingSegments(allMatchedSegments)},
          objs \in {segmentsAfterMerge(allMatchedSegments)} :
         \E built \in {[k \in 1..Len(reports) |-> reportAfterMerge(reports, objs, k)]} :
           \E order \in {sortByScoreDesc(built)} :
             /\ result' = [overallSimilarity |->
                               round2(totalChars(mergedSegments),
                                      Len(currentSubmission.content)),
                           reports |-> [k \in 1..Len(built) |-> built[order[k]]],
                           matchedSegments |-> mergedSegments]
             /\ allMatchedSegments' = objs
             /\ reports' = [k \in 1..Len(built) |-> built[order[k]]]
    /\ pc' = "done"
    /\ UNCHANGED <<submissions, plagiarism_reports, args, currentSubmission,
                   otherSubmissions, peerIdx, insertLog, storeErrors,
                   reportsAtCall, otherVars>>

Next ==
    \/ StartCheck
    \/ FetchCurrent
    \/ FetchPeers
    \/ ComparePeer
    \/ InsertReport
    \/ Finish

Spec == Init /\ [][Next]_vars

\* r hundredths is 100 * n / d rounded to two decimals (halves go up)
IsRounded2(r, n, d) == 2 * d * r - d <= 20000 * n /\ 20000 * n < 2 * d * r + d

\* C1: the similarity_score of every report built by a run, as returned and
\* as sent to the report store, is a percentage in [0, 100].
C1_ScoreIsPercentage ==
    /\ \A k \in DOMAIN reports :
          0 <= reports[k].similarity_score /\ reports[k].similarity_score <= 10000
    /\ \A k \in DOMAIN insertLog :
          0 <= insertLog[k].similarity_score /\ insertLog[k].similarity_score <= 10000

\* for every pair of contents of the table, the positions of the first
\* covered by its matches against the second
CoveredTable ==
    [o \in Contents |-> [c \in Contents |->
        Covered(findMatchingSegments(o, c, 0, DefaultThreshold))]]

\* the positions of the checked text covered by the matches against the
\* peers the run fetched
CoveredByPeers ==
    UNION {CoveredTable[currentSubmission.content][otherSubmissions[k].content] :
             k \in {i \in DOMAIN otherSubmissions : otherSubmissions[i].content # <<>>}}

\* C2: the overallSimilarity a run returns is 100 * (number of characters of
\* the checked text covered by the union of the matched spans of all peers)
\* / length of the checked text, rounded to 2 decimals, and is at most 100.
C2_OverallIsUnionCoverage ==
    (pc = "done" /\ "overallSimilarity" \in DOMAIN result) =>
        /\ IsRounded2(result.overallSimilarity, Cardinality(CoveredByPeers),
                      Len(currentSubmission.content))
        /\ result.overallSimilarity <= 10000

\* a run returned with two reports whose spans cover the same characters:
\* one merged span, counted once
C2_Witness ==
    /\ pc = "done"
    /\ "matchedSegments" \in DOMAIN result
    /\ Len(result.reports) = 2
    /\ Len(result.matchedSegments) = 1
    /\ result.overallSimilarity > 0
    /\ result.overallSimilarity < result.reports[1].similarity_score
    /\ result.overallSimilarity < result.reports[2].similarity_score

RECURSIVE SumTo(_, _)
SumTo(f, n) == IF n = 0 THEN 0 ELSE SumTo(f, n - 1) + f[n]

\* the summed length of the sentences of original, each counted once for
\* every sentence of compared it matches at the default threshold
PairSum(original, compared) ==
    LET os == splitIntoSentences(original)
        cs == splitIntoSentences(compared)
        hits(i) == {j \in DOMAIN cs :
                      AtLeast(calculateSimilarity(normalizeText(os[i]),
                                                  normalizeText(cs[j])),
                              DefaultThreshold)}
    IN  SumTo([i \in DOMAIN os |-> Cardinality(hits(i)) * Len(os[i])], Len(os))

\* PairSum for every pair of contents of the table
PairSumTable == [o \in Contents |-> [c \in Contents |-> PairSum(o, c)]]

\* PairSum of the checked text and the content the run fetched for a peer
PeerSum(id) ==
    PairSumTable[currentSubmission.content]
                [(CHOOSE o \in Range(otherSubmissions) : o.id = id).content]

\* C3: the similarity_score of a report, as returned and as sent to the
\* store, is 100 * (sum over every match against that peer of
\* endIndex - startIndex) / length of the checked text, rounded to 2
\* decimals; a span counts once for each match that produced it.
C3_PairScoreIsMatchSum ==
    /\ \A k \in DOMAIN reports :
          IsRounded2(reports[k].similarity_score,
                     PeerSum(reports[k].compared_submission_id),
                     Len(currentSubmission.content))
    /\ \A k \in DOMAIN insertLog :
          IsRounded2(insertLog[k].similarity_score,
                     PeerSum(insertLog[k].compared_submission_id),
                     Len(currentSubmission.content))
    /\ (pc = "done" /\ "matchedSegments" \in DOMAIN result) =>
          \A k \in DOMAIN result.reports :
             IsRounded2(result.reports[k].similarity_score,
                        PeerSum(result.reports[k].compared_submission_id),
                        Len(currentSubmission.content))

\* a report was built from two matches with overlapping spans: its score
\* counts the shared characters twice
C3_Witness ==
    /\ pc = "insert"
    /\ \E k \in DOMAIN reports :
          /\ Len(reports[k].matched_content) = 2
          /\ Covered(<<reports[k].matched_content[1]>>)
               \cap Covered(<<reports[k].matched_content[2]>>) # {}
          /\ reports[k].similarity_score = insertLog[k].similarity_score
          /\ ~IsRounded2(reports[k].similarity_score,
                         Cardinality(Covered(reports[k].matched_content)),
                         Len(currentSubmission.content))

\* the submission the run was asked to check, as the table holds it
checkedRow == IF args.submissionId \in DOMAIN submissions
              THEN submissions[args.submissionId]
              ELSE Null

\* C11: once the fetch of the checked submission has returned, a run whose
\* submission does not exist or has the empty string as content has ended
\* with the error result, has handed no row to the store and has left the
\* table as it was, and it never fetched or compared a peer.
C11_MissingOrEmptyIsError ==
    (/\ pc \notin {"idle", "fetchCurrent"}
     /\ (checkedRow = Null \/ checkedRow.content = <<>>))
      => /\ pc = "done"
         /\ DOMAIN result = {"error"}
         /\ result.error # ""
         /\ insertLog = <<>>
         /\ plagiarism_reports = reportsAtCall
         /\ otherSubmissions = <<>>
         /\ peerIdx = 0
         /\ reports = <<>>
         /\ allMatchedSegments = <<>>

\* the checked submission exists, its content is empty and the store answered
\* the fetch: the run has ended with the error result
C11_Witness ==
    /\ pc = "done"
    /\ checkedRow # Null
    /\ checkedRow.content = <<>>
    /\ storeErrors = {}
    /\ "error" \in DOMAIN result

\* the fetches of the run that the store answered with an error
failedFetches == {e \in storeErrors : e.op \in {"fetchCurrent", "fetchPeers"}}

\* C12: a run one of whose two fetches failed ends with a failure result: it
\* never returns a success result, and in particular not the success result
\* with overallSimilarity 0 that says there is nothing to compare against.
C12_FetchFailureIsFailure ==
    (pc = "done" /\ failedFetches # {})
      => /\ "error" \in DOMAIN result
         /\ "overallSimilarity" \notin DOMAIN result

\* the other submissions of the assignment of the run that were submitted,
\* graded ones included
submittedOrLater ==
    {id \in DOMAIN submissions :
        /\ id # args.submissionId
        /\ submissions[id].assignment_id = args.assignmentId
        /\ submissions[id].status \in {"submitted", "graded"}}

\* the ids of the rows the peer fetch gave the run
fetchedPeers == {otherSubmissions[k].id : k \in DOMAIN otherSubmissions}

\* C13: the peers a run compares against are exactly the other submissions
\* of the same assignment whose status is 'submitted' or 'graded' (never a
\* draft), whatever the status of the checked submission.
C13_PeersAreSubmittedOrLater ==
    /\ pc \in {"loop", "insert"} => fetchedPeers = submittedOrLater
    /\ (pc = "done" /\ "message" \in DOMAIN result /\ failedFetches = {})
          => submittedOrLater = {}

-----------------------------------------------------------------------------
(* SpecRuns: check runs one after another on one table                     *)

MaxRuns == 2

\* a table with a submitted text, a submitted text that holds it twice, a
\* draft, a submission of another assignment and a graded submission
RunTable ==
    << [assignment_id |-> 1, content |-> SentA, status |-> "submitted"],
       [assignment_id |-> 1, content |-> NestedA, status |-> "submitted"],
       [assignment_id |-> 1, content |-> SentA, status |-> "draft"],
       [assignment_id |-> 2, content |-> SentA, status |-> "submitted"],
       [assignment_id |-> 1, content |-> NestedA, status |-> "graded"] >>

InitRuns ==
    /\ submissions = RunTable
    /\ plagiarism_reports = <<>>
    /\ NoRun
    /\ fnIn = Null
    /\ fnOut = Null
    /\ fnPc = "unused"

\* checkPlagiarism has returned to runPlagiarismCheck, its locals are gone
\* and the check can be asked for again
Return ==
    /\ pc = "done"
    /\ runCount + 1 < MaxRuns
    /\ runCount' = runCount + 1
    /\ pc' = "idle"
    /\ args' = Null
    /\ currentSubmission' = Null
    /\ otherSubmissions' = <<>>
    /\ peerIdx' = 0
    /\ allMatchedSegments' = <<>>
    /\ reports' = <<>>
    /\ insertLog' = <<>>
    /\ result' = Null
    /\ storeErrors' = {}
    /\ reportsAtCall' = <<>>
    /\ UNCHANGED <<submissions, plagiarism_reports, parked, ui, forms, fnVars>>

NextRuns ==
    \/ Next
    \/ Return

SpecRuns == InitRuns /\ [][NextRuns]_vars

\* the row a step has added to plagiarism_reports
newRow == plagiarism_reports'[Len(plagiarism_reports')]

\* C14: over any sequence of check runs, a run never writes a row that
\* compares a submission with itself, and the compared submission of every
\* row it writes is one of the assignment passed to the run whose status
\* was 'submitted' when the run fetched its peers.
C14_RowsCompareSubmittedPeers ==
    /\ [](\A k \in DOMAIN plagiarism_reports :
            /\ plagiarism_reports[k].compared_submission_id
                  # plagiarism_reports[k].submission_id
            /\ submissions[plagiarism_reports[k].compared_submission_id].status
                  = "submitted")
    /\ [][plagiarism_reports' # plagiarism_reports =>
            /\ plagiarism_reports' = Append(plagiarism_reports, newRow)
            /\ newRow.submission_id = args.submissionId
            /\ newRow.compared_submission_id # args.submissionId
            /\ newRow.compared_submission_id \in fetchedPeers
            /\ submissions[newRow.compared_submission_id].assignment_id
                  = args.assignmentId
            /\ submissions[newRow.compared_submission_id].status
                  = "submitted"]_vars

\* a second run, called for another submission and another assignment than
\* the first, has written its row after the row of the first
C14_Witness ==
    /\ runCount = 1
    /\ Len(plagiarism_reports) >= 2
    /\ plagiarism_reports[1].submission_id
          # plagiarism_reports[Len(plagiarism_reports)].submission_id
    /\ submissions[plagiarism_reports[1].compared_submission_id].assignment_id
          # args.assignmentId

\* the rows of the table that pass the filters of the peer query of the run
eligiblePeers == {id \in DOMAIN submissions : peerRow(id, args)}

\* C15: once the peer fetch has been answered without an error and no row
\* passes its filters, the run has ended with the success result whose
\* overallSimilarity is 0, whose reports are empty and whose message is not
\* empty, and plagiarism_reports is as it was when the run was called.
C15_NoPeerIsZeroSuccess ==
    (/\ pc \notin {"idle", "fetchCurrent", "fetchPeers"}
     /\ currentSubmission # Null
     /\ failedFetches = {}
     /\ eligiblePeers = {})
      => /\ pc = "done"
         /\ DOMAIN result = {"overallSimilarity", "reports", "message"}
         /\ result.overallSimilarity = 0
         /\ result.reports = <<>>
         /\ result.message # ""
         /\ insertLog = <<>>
         /\ plagiarism_reports = reportsAtCall

\* a second run found no peer for its submission while the table held the
\* rows of the first run
C15_Witness ==
    /\ pc = "done"
    /\ runCount = 1
    /\ currentSubmission # Null
    /\ failedFetches = {}
    /\ eligiblePeers = {}
    /\ plagiarism_reports # <<>>
    /\ "message" \in DOMAIN result

\* the number of fetched peers the loop has dealt with
peersDone ==
    CASE pc = "loop" -> peerIdx - 1
      [] pc = "insert" -> peerIdx
      [] pc = "done" /\ "matchedSegments" \in DOMAIN result -> Len(otherSubmissions)
      [] OTHER -> 0

\* whether the checked text has a matching segment against the k-th peer
peerMatches(k) ==
    /\ otherSubmissions[k].content # <<>>
    /\ CoveredTable[currentSubmission.content][otherSubmissions[k].content] # {}

\* the ids of the first n fetched peers with a matching segment
matchingPeers(n) ==
    {otherSubmissions[k].id : k \in {i \in 1..n : peerMatches(i)}}

\* the compared_submission_id of the entries of a list of reports
comparedIds(rs) == {rs[k].compared_submission_id : k \in DOMAIN rs}

\* C16: at every point of a run there is exactly one report built and one
\* insert issued for each peer dealt with so far that has a matching
\* segment, and none for a peer without; the reports the run returns have
\* one entry for each such peer and no two entries for the same peer.
C16_OneReportPerMatchingPeer ==
    /\ pc \in {"loop", "insert"} =>
          /\ comparedIds(reports) = matchingPeers(peersDone)
          /\ Len(reports) = Cardinality(matchingPeers(peersDone))
          /\ comparedIds(insertLog) = matchingPeers(peersDone)
          /\ Len(insertLog) = Cardinality(matchingPeers(peersDone))
          /\ \A k \in DOMAIN insertLog :
                insertLog[k].submission_id = args.submissionId
    /\ (pc = "done" /\ "matchedSegments" \in DOMAIN result) =>
          /\ comparedIds(result.reports) = matchingPeers(peersDone)
          /\ Len(result.reports) = Cardinality(matchingPeers(peersDone))
          /\ comparedIds(insertLog) = matchingPeers(peersDone)
          /\ Len(insertLog) = Cardinality(matchingPeers(peersDone))

\* a run over two peers, the first with a match and the second without,
\* returned one report
C16_Witness ==
    /\ pc = "done"
    /\ "matchedSegments" \in DOMAIN result
    /\ Len(otherSubmissions) = 2
    /\ peerMatches(1)
    /\ ~peerMatches(2)
    /\ Len(result.reports) = 1
    /\ Len(insertLog) = 1

\* whether sequence a is the beginning of sequence b
isPrefix(a, b) == Len(a) <= Len(b) /\ SubSeq(b, 1, Len(a)) = a

\* the requests of the run that the store did not carry out (a row the
\* store refused for its score is not among them)
failedRequests ==
    {e \in storeErrors : e.op \in {"fetchCurrent", "fetchPeers", "insert"}}

\* C17: a run only appends: the rows that were in plagiarism_reports when it
\* was called are still there, unchanged and in place; and a run all of
\* whose requests the store carried out leaves k more rows than it found,
\* k being the number of peers with a matching segment, so that n runs of
\* the same check leave n * k rows.
C17_AppendsOneRowPerMatchingPeer ==
    /\ isPrefix(reportsAtCall, plagiarism_reports)
    /\ (pc = "done" /\ "matchedSegments" \in DOMAIN result /\ failedRequests = {})
          => Len(plagiarism_reports) - Len(reportsAtCall)
               = Cardinality(matchingPeers(Len(otherSubmissions)))

\* the inserts of the run that the store answered with an error, by their
\* position among the inserts of the run
failedInserts ==
    {e.at : e \in {x \in storeErrors : x.op \in {"insert", "insertCheck"}}}

\* the inserts of the run that have been answered without an error
keptInserts ==
    {k \in DOMAIN insertLog :
        /\ k \notin failedInserts
        /\ ~(pc = "insert" /\ k = Len(insertLog))}

\* the rows of the inserts in keptInserts, in the order they were issued
keptRows ==
    [i \in 1..Cardinality(keptInserts) |->
        insertLog[CHOOSE k \in keptInserts :
                    Cardinality({j \in keptInserts : j <= k}) = i]]

\* C18: an insert the store answers with an error does not end the run: the
\* table holds, after the rows it had at the call, the row of every insert
\* of the run that was answered without an error, later peers included; and
\* a run with a failed insert still returns overallSimilarity, reports and
\* matchedSegments, with a report for every peer that has a matching segment.
C18_FailedInsertDoesNotAbort ==
    /\ pc \in {"loop", "insert", "done"} =>
          plagiarism_reports = reportsAtCall \o keptRows
    /\ (pc = "done" /\ failedInserts # {}) =>
          /\ DOMAIN result = {"overallSimilarity", "reports", "matchedSegments"}
          /\ comparedIds(result.reports) = matchingPeers(Len(otherSubmissions))
          /\ comparedIds(insertLog) = matchingPeers(Len(otherSubmissions))

\* the store did not carry out the first insert of a run and kept the row of
\* the second; the run has returned both reports
C18_Witness ==
    /\ pc = "done"
    /\ [op |-> "insert", at |-> 1] \in storeErrors
    /\ Len(insertLog) = 2
    /\ plagiarism_reports = <<insertLog[2]>>
    /\ Len(result.reports) = 2

\* what checkPlagiarism writes to the console or to a log about a failed
\* insert: it has no such statement
loggedErrors == {}

\* the fields of the result of a run that went through the loop
successFields == {"overallSimilarity", "reports", "matchedSegments"}

\* C19: when the store answered an insert of the run with an error, the run
\* has reported it: something was logged, or the result it returns carries
\* more than the fields of a run without a failure.
C19_FailedInsertIsReported ==
    (pc = "done" /\ failedInserts # {})
      => \/ loggedErrors # {}
         \/ DOMAIN result \ successFields # {}

-----------------------------------------------------------------------------
(* SpecConc: two check runs on one table, interleaved at their awaits       *)

\* the locals of the run that is executing
locals ==
    [pc |-> pc, args |-> args, currentSubmission |-> currentSubmission,
     otherSubmissions |-> otherSubmissions, peerIdx |-> peerIdx,
     allMatchedSegments |-> allMatchedSegments, reports |-> reports,
     insertLog |-> insertLog, result |-> result, storeErrors |-> storeErrors,
     reportsAtCall |-> reportsAtCall]

InitConc ==
    /\ submissions = RunTable
    /\ plagiarism_reports = <<>>
    /\ pc = "idle"
    /\ args = Null
    /\ currentSubmission = Null
    /\ otherSubmissions = <<>>
    /\ peerIdx = 0
    /\ allMatchedSegments = <<>>
    /\ reports = <<>>
    /\ insertLog = <<>>
    /\ result = Null
    /\ storeErrors = {}
    /\ reportsAtCall = <<>>
    /\ runCount = 0
    /\ parked = locals
    /\ ui = NoUi
    /\ forms = NoForms
    /\ fnIn = Null
    /\ fnOut = Null
    /\ fnPc = "unused"

\* the executing run waits at an await (or has not been called, or has
\* returned) and the other run goes on from where it waited
Yield ==
    /\ parked # Null
    /\ parked' = locals
    /\ pc' = parked.pc
    /\ args' = parked.args
    /\ currentSubmission' = parked.currentSubmission
    /\ otherSubmissions' = parked.otherSubmissions
    /\ peerIdx' = parked.peerIdx
    /\ allMatchedSegments' = parked.allMatchedSegments
    /\ reports' = parked.reports
    /\ insertLog' = parked.insertLog
    /\ result' = parked.result
    /\ storeErrors' = parked.storeErrors
    /\ reportsAtCall' = parked.reportsAtCall
    /\ UNCHANGED <<submissions, plagiarism_reports, runCount, ui, forms, fnVars>>

NextConc ==
    \/ Next
    \/ Yield

SpecConc == InitConc /\ [][NextConc]_vars

\* the reports a run alone builds from the first k of the peers it fetched
RECURSIVE aloneReports(_, _, _)
aloneReports(content, peers, k) ==
    IF k = 0 THEN <<>>
    ELSE LET matches == IF peers[k].content = <<>> THEN <<>>
                        ELSE findMatchingSegments(content, peers[k].content,
                                                  peers[k].id, DefaultThreshold)
         IN  IF hasMatches(matches)
             THEN Append(aloneReports(content, peers, k - 1),
                         reportFor(content, peers[k], matches))
             ELSE aloneReports(content, peers, k - 1)

\* the segments of the first k reports, in the order they were pushed
RECURSIVE segmentsOfReports(_, _)
segmentsOfReports(rs, k) ==
    IF k = 0 THEN <<>>
    ELSE segmentsOfReports(rs, k - 1) \o rs[k].matched_content

\* the result of lines 152-160 for the reports rs of a run on a text of
\* length len
resultOf(rs, len) ==
    LET all == segmentsOfReports(rs, Len(rs))
        mergedSegments == mergeOverlappingSegments(all)
        objs == segmentsAfterMerge(all)
        built == [k \in 1..Len(rs) |-> reportAfterMerge(rs, objs, k)]
        order == sortByScoreDesc(built)
    IN  [overallSimilarity |-> round2(totalChars(mergedSegments), len),
         reports |-> [k \in 1..Len(built) |-> built[order[k]]],
         matchedSegments |-> mergedSegments]

\* what a run returns when it runs alone on the rows it fetched
aloneResult(current, peers) ==
    IF notFoundOrEmpty(current)
    THEN [error |-> "Submission not found or empty"]
    ELSE IF noPeers(peers)
         THEN [overallSimilarity |-> 0, reports |-> <<>>,
               message |-> "No other submissions to compare against"]
         ELSE resultOf(aloneReports(current.content, peers, Len(peers)),
                       Len(current.content))

\* the number of entries of seq that are equal to x
countOf(seq, x) == Cardinality({k \in DOMAIN seq : seq[k] = x})

\* both runs were called for the same submission and have returned, and the
\* store carried out every request of both
bothReturned ==
    /\ pc = "done"
    /\ parked.pc = "done"
    /\ args.submissionId = parked.args.submissionId
    /\ failedRequests = {}
    /\ {e \in parked.storeErrors : e.op \in {"fetchCurrent", "fetchPeers", "insert"}} = {}

\* C20: when two runs for the same submission, interleaved at their awaits,
\* have both returned, the table holds the rows of both runs, one for each
\* peer with a matching segment of each run and none lost, and each run has
\* returned what it returns alone on the rows it fetched (stated for the
\* run that is executing; either run can be the one).
C20_InterleavedRunsAreIndependent ==
    bothReturned =>
      /\ \A r \in Range(plagiarism_reports) \cup Range(insertLog)
                  \cup Range(parked.insertLog) :
            countOf(plagiarism_reports, r)
              = countOf(insertLog, r) + countOf(parked.insertLog, r)
      /\ "matchedSegments" \in DOMAIN result =>
            Len(insertLog) = Cardinality(matchingPeers(Len(otherSubmissions)))
      /\ result = aloneResult(currentSubmission, otherSubmissions)

\* whatever the store answered: the table holds as many rows as the inserts
\* of both runs it kept, and the result of a run is the result of the run
\* alone on the rows it fetched
InterleavingLosesNothing ==
    (pc = "done" /\ parked.pc = "done") =>
      /\ Len(plagiarism_reports)
            = (Len(insertLog) - Cardinality(failedInserts))
              + (Len(parked.insertLog)
                   - Cardinality({e \in parked.storeErrors :
                                    e.op \in {"insert", "insertCheck"}}))
      /\ \A k \in DOMAIN plagiarism_reports :
            plagiarism_reports[k] \in Range(insertLog) \cup Range(parked.insertLog)
      /\ failedFetches = {} =>
            result = aloneResult(currentSubmission, otherSubmissions)

\* C21: the reports a run returns are in descending order of
\* similarity_score, whatever order the store returned the peers in.
C21_ReportsSortedDescending ==
    (pc = "done" /\ "reports" \in DOMAIN result) =>
        \A k \in 1..(Len(result.reports) - 1) :
            result.reports[k].similarity_score
              >= result.reports[k + 1].similarity_score

\* the store returned the peer with the lower score first, and the run
\* returned the report of the other peer first
C21_Witness ==
    /\ pc = "done"
    /\ "matchedSegments" \in DOMAIN result
    /\ Len(result.reports) = 2
    /\ Len(otherSubmissions) = 2
    /\ result.reports[1].similarity_score > result.reports[2].similarity_score
    /\ result.reports[1].compared_submission_id = otherSubmissions[2].id
    /\ result.reports[2].compared_submission_id = otherSubmissions[1].id

\* the pieces of the compared texts of SpecMatch
ComparedPieces == {SentA, SentAcap, SentComma}

\* the similarity of the normalized forms of every piece of an original
\* text and every piece of a compared text
SentenceSimilarity ==
    [o \in OrigPieces |-> [c \in ComparedPieces |->
        calculateSimilarity(normalizeText(o), normalizeText(c))]]

\* the pairs (sentence of the original text, sentence of the compared text)
\* of a findMatchingSegments run whose similarity reaches the threshold
matchingPairs ==
    {p \in (DOMAIN fnOut.originalSentences) \X (DOMAIN fnOut.comparedSentences) :
        LET similarity == SentenceSimilarity[fnOut.originalSentences[p[1]]]
                                            [fnOut.comparedSentences[p[2]]]
        IN  similarity.num >= fnIn.threshold * similarity.den}

\* whether pair p comes before pair q, or is q, with the original sentence
\* as the outer loop and the compared sentence as the inner
notAfter(p, q) == p[1] < q[1] \/ (p[1] = q[1] /\ p[2] <= q[2])

\* C22: findMatchingSegments returns one segment for each pair of an
\* original and a compared sentence whose similarity is >= threshold: as
\* many segments as such pairs, in the order original sentence outer and
\* compared sentence inner, each with the text of its original sentence at
\* the offsets of that sentence, so that a sentence matching m compared
\* sentences gives m segments with the same offsets.
C22_OneSegmentPerMatchingPair ==
    fnPc = "matched" =>
      \E pairs \in {matchingPairs} :
        /\ Len(fnOut.matches) = Cardinality(pairs)
        /\ \A p \in pairs :
              LET k == Cardinality({q \in pairs : notAfter(q, p)})
                  sentence == fnOut.originalSentences[p[1]]
              IN  /\ fnOut.matches[k].text = sentence
                  /\ fnOut.matches[k].endIndex - fnOut.matches[k].startIndex
                        = Len(sentence)
                  /\ SubSeq(fnIn.originalText, fnOut.matches[k].startIndex + 1,
                            fnOut.matches[k].endIndex) = sentence
        /\ \A p, q \in pairs :
              p[1] = q[1] =>
                LET k == Cardinality({r \in pairs : notAfter(r, p)})
                    l == Cardinality({r \in pairs : notAfter(r, q)})
                IN  /\ fnOut.matches[k].startIndex = fnOut.matches[l].startIndex
                    /\ fnOut.matches[k].endIndex = fnOut.matches[l].endIndex

\* with threshold 75, a sentence whose similarity to each of two compared
\* sentences is exactly 75 gave two segments with the same offsets
C22_Witness ==
    /\ fnPc = "matched"
    /\ fnIn.threshold = 75
    /\ Len(fnOut.originalSentences) = 1
    /\ Len(fnOut.comparedSentences) = 2
    /\ \A j \in 1..2 :
          LET similarity == SentenceSimilarity[fnOut.originalSentences[1]]
                                              [fnOut.comparedSentences[j]]
          IN  similarity.num = 75 * similarity.den
    /\ Len(fnOut.matches) = 2
    /\ fnOut.matches[1].startIndex = fnOut.matches[2].startIndex
    /\ fnOut.matches[1].endIndex = fnOut.matches[2].endIndex

-----------------------------------------------------------------------------
(* SpecUi: the PlagiarismReport component running checks on one table      *)

\* String.prototype.substring(a, b): both ends are clamped to the text and
\* swapped when the first is the larger
substring(text, a, b) ==
    LET ca == MaxOf({0, MinOf({a, Len(text)})})
        cb == MaxOf({0, MinOf({b, Len(text)})})
    IN  SubSeq(text, MinOf({ca, cb}) + 1, MaxOf({ca, cb}))

\* the opening and the closing tag that highlightMatches puts around a
\* segment, each held as one element of the highlighted text
MarkOpen == "<mark>"

MarkClose == "</mark>"

\* part_001 lines 52-60: the { start, end } of every match of every report
RECURSIVE segmentsOfData(_, _)
segmentsOfData(reportData, k) ==
    IF k = 0 THEN <<>>
    ELSE segmentsOfData(reportData, k - 1)
           \o [i \in 1..Len(reportData[k].matched_content) |->
                 [start |-> reportData[k].matched_content[i].startIndex,
                  end |-> reportData[k].matched_content[i].endIndex]]

\* part_001 line 62: segments.sort((a, b) => a.start - b.start), stable
sortSegments(segments) ==
    LET n == Len(segments)
        rank(i) == Cardinality({j \in 1..n :
                       \/ segments[j].start < segments[i].start
                       \/ /\ segments[j].start = segments[i].start
                          /\ j < i}) + 1
    IN  [k \in 1..n |-> segments[CHOOSE i \in 1..n : rank(i) = k]]

\* part_001 lines 64-73: the loop over the sorted segments, from segment k
RECURSIVE highlightFrom(_, _, _, _, _)
highlightFrom(content, segments, k, lastIndex, highlighted) ==
    IF k > Len(segments)
    THEN highlighted \o substring(content, lastIndex, Len(content))
    ELSE highlightFrom(content, segments, k + 1, segments[k].end,
                       highlighted
                         \o substring(content, lastIndex, segments[k].start)
                         \o <<MarkOpen>>
                         \o substring(content, segments[k].start, segments[k].end)
                         \o <<MarkClose>>)

\* part_001 lines 48-75
highlightMatches(reportData, submissionContent) ==
    highlightFrom(submissionContent,
                  sortSegments(segmentsOfData(reportData, Len(reportData))),
                  1, 0, <<>>)

\* the positions of the rows of plagiarism_reports of one submission
rowsOf(submissionId) ==
    {k \in DOMAIN plagiarism_reports :
        plagiarism_reports[k].submission_id = submissionId}

\* the orders in which getPlagiarismReports may return the rows at the
\* positions in S: descending similarity_score, ties in any order
scoreOrders(S) ==
    {o \in Orders(S) :
        \A i \in 1..(Len(o) - 1) :
            plagiarism_reports[o[i]].similarity_score
              >= plagiarism_reports[o[i + 1]].similarity_score}

\* the submissionContent prop of the component
submissionContent == IF checkedRow = Null THEN <<>> ELSE checkedRow.content

\* part_001 lines 38-42: checkPlagiarism has returned to runPlagiarismCheck
ShowResult ==
    /\ pc = "done"
    /\ ui' = IF "overallSimilarity" \in DOMAIN result
             THEN [ui EXCEPT !.overallScore = result.overallSimilarity]
             ELSE ui
    /\ pc' = "loadReports"
    /\ UNCHANGED <<submissions, plagiarism_reports, args, currentSubmission,
                   otherSubmissions, peerIdx, allMatchedSegments, reports,
                   insertLog, result, storeErrors, reportsAtCall, runCount,
                   parked, forms, fnVars>>

\* part_001 lines 22-34 and 44-45, with getPlagiarismReports (plagiarism.ts
\* lines 163-177): a failed request gives the empty list
LoadReports ==
    /\ pc = "loadReports"
    /\ \E ok \in BOOLEAN :
         \E o \in scoreOrders(IF ok THEN rowsOf(args.submissionId) ELSE {}) :
           \E data \in {[k \in 1..Len(o) |-> plagiarism_reports[o[k]]]} :
             ui' = IF Len(data) > 0
                   THEN [reports |-> data,
                         overallScore |->
                            MaxOf({data[k].similarity_score : k \in DOMAIN data}),
                         highlightedContent |->
                            highlightMatches(data, submissionContent)]
                   ELSE [ui EXCEPT !.reports = data]
    /\ pc' = "shown"
    /\ UNCHANGED <<submissions, plagiarism_reports, args, currentSubmission,
                   otherSubmissions, peerIdx, allMatchedSegments, reports,
                   insertLog, result, storeErrors, reportsAtCall, runCount,
                   parked, forms, fnVars>>

\* the Run Check button is pressed again: the locals of the last run are gone
CheckAgain ==
    /\ pc = "shown"
    /\ runCount + 1 < MaxRuns
    /\ runCount' = runCount + 1
    /\ pc' = "idle"
    /\ args' = Null
    /\ currentSubmission' = Null
    /\ otherSubmissions' = <<>>
    /\ peerIdx' = 0
    /\ allMatchedSegments' = <<>>
    /\ reports' = <<>>
    /\ insertLog' = <<>>
    /\ result' = Null
    /\ storeErrors' = {}
    /\ reportsAtCall' = <<>>
    /\ UNCHANGED <<submissions, plagiarism_reports, parked, ui, forms, fnVars>>

NextUi ==
    \/ Next
    \/ ShowResult
    \/ LoadReports
    \/ CheckAgain

SpecUi == InitRuns /\ [][NextUi]_vars

\* C23: once runPlagiarismCheck has completed for a check that returned a
\* success result, the overallScore of the component is the
\* overallSimilarity the check returned, also when the store holds reports
\* of the submission.
C23_ShownScoreIsOverallSimilarity ==
    (pc = "shown" /\ "overallSimilarity" \in DOMAIN result)
      => ui.overallScore = result.overallSimilarity

\* the highlighted text with the mark tags removed
withoutMarks(highlighted) ==
    SelectSeq(highlighted, LAMBDA c : c \notin {MarkOpen, MarkClose})

\* C28: whatever reports of the submission the store holds (from one run or
\* from several, with segments that overlap or coincide), the highlighted
\* text that highlightMatches built from them is, without its mark tags,
\* exactly the content of the submission.
C28_HighlightKeepsContent ==
    (pc = "shown" /\ ui.reports # <<>>)
      => withoutMarks(ui.highlightedContent) = submissionContent

-----------------------------------------------------------------------------
(* SpecLife: students saving their submission and a teacher grading        *)

\* the variables of a check run and of the PlagiarismReport component
runVars == <<pc, args, currentSubmission, otherSubmissions, peerIdx,
             allMatchedSegments, reports, insertLog, result, storeErrors,
             reportsAtCall, runCount, parked, ui>>

\* the texts a student types into the form (the textarea is required)
FormContents == {SentA, SentD}

\* the scores a teacher enters; the nullable column score holds Null or
\* [value |-> n]
Scores == {[value |-> 0], [value |-> 85]}

\* the assignment of the SubmissionModal
FormAssignment == 1

\* App.tsx line 289, getSubmissionForAssignment: the ids of the rows of a
\* student for the assignment (at most one, by the UNIQUE constraint)
ownRows(st) ==
    {id \in DOMAIN submissions :
        /\ submissions[id].student_id = st
        /\ submissions[id].assignment_id = FormAssignment}

InitLife ==
    /\ submissions = <<>>
    /\ plagiarism_reports = <<>>
    /\ NoRun
    /\ fnIn = Null
    /\ fnOut = Null
    /\ fnPc = "unused"

\* App.tsx lines 286-296: the student opens the SubmissionModal, which gets
\* the submission as it is now as its existingSubmission prop
OpenForm(st) ==
    /\ forms[st] = Null
    /\ forms' = [forms EXCEPT ![st] =
                   [existingSubmission |->
                      IF ownRows(st) = {} THEN Null
                      ELSE LET id == CHOOSE i \in ownRows(st) : TRUE
                           IN  [id |-> id, status |-> submissions[id].status]]]
    /\ UNCHANGED <<submissions, plagiarism_reports, runVars, fnVars>>

\* App.tsx line 290, onClose
CloseForm(st) ==
    /\ forms[st] # Null
    /\ forms' = [forms EXCEPT ![st] = Null]
    /\ UNCHANGED <<submissions, plagiarism_reports, runVars, fnVars>>

\* App.tsx line 317
isGraded(existingSubmission) ==
    existingSubmission # Null /\ existingSubmission.status = "graded"

\* App.tsx lines 325-331
submissionData(st, content, saveType) ==
    [assignment_id |-> FormAssignment,
     student_id |-> st,
     content |-> content,
     status |-> IF saveType = "submit" THEN "submitted" ELSE "draft"]

\* App.tsx lines 319-346, handleSubmit, reachable only while the form is
\* rendered (line 390: not when isGraded); the result of the request is not
\* looked at and onSuccess closes the modal
SaveForm(st) ==
    /\ forms[st] # Null
    /\ ~isGraded(forms[st].existingSubmission)
    /\ \E content \in FormContents, saveType \in {"draft", "submit"}, ok \in BOOLEAN :
         LET data == submissionData(st, content, saveType)
             existingSubmission == forms[st].existingSubmission
         IN  submissions' =
               IF ~ok THEN submissions
               ELSE IF existingSubmission # Null
                    THEN [submissions EXCEPT ![existingSubmission.id] =
                            [f \in DOMAIN @ |->
                               IF f \in DOMAIN data THEN data[f] ELSE @[f]]]
                    ELSE IF ownRows(st) = {}
                         THEN Append(submissions, data @@ [score |-> Null])
                         ELSE submissions
    /\ forms' = [forms EXCEPT ![st] = Null]
    /\ UNCHANGED <<plagiarism_reports, runVars, fnVars>>

\* part_003 lines 424-432, updateSubmission: the teacher grades a submission
\* of the list
Grade(id) ==
    /\ id \in DOMAIN submissions
    /\ \E score \in Scores, ok \in BOOLEAN :
         submissions' = IF ok
                        THEN [submissions EXCEPT ![id].score = score,
                                                 ![id].status = "graded"]
                        ELSE submissions
    /\ UNCHANGED <<plagiarism_reports, forms, runVars, fnVars>>

NextLife ==
    \/ \E st \in Students : OpenForm(st)
    \/ \E st \in Students : CloseForm(st)
    \/ \E st \in Students : SaveForm(st)
    \/ \E id \in 1..Cardinality(Students) : Grade(id)

SpecLife == InitLife /\ [][NextLife]_vars

\* C24: in every state reached by student saves and teacher grading, in
\* any interleaving, a submission whose status is not 'graded' has a null
\* score.
C24_ScoreNullUnlessGraded ==
    \A id \in DOMAIN submissions :
        submissions[id].status # "graded" => submissions[id].score = Null

\* the place of a status along draft -> submitted -> graded
statusRank(status) ==
    CASE status = "draft" -> 0
      [] status = "submitted" -> 1
      [] status = "graded" -> 2

\* C30: under any sequence of student saves and teacher grading, no step
\* moves the status of a submission backward along
\* draft -> submitted -> graded.
C30_StatusOnlyMovesForward ==
    [][\A id \in DOMAIN submissions :
          statusRank(submissions'[id].status) >= statusRank(submissions[id].status)]_vars

\* the matched_content that was sent to the store for the report of a peer
sentContent(id) ==
    (CHOOSE row \in Range(insertLog) : row.compared_submission_id = id).matched_content

\* C25: when a run has returned, the matched_content of every report it
\* returns has the startIndex, endIndex and text that findMatchingSegments
\* computed and that were sent to the store for that peer: the merge for
\* the overall view has not changed them.
C25_MergeLeavesReportsAlone ==
    (pc = "done" /\ "matchedSegments" \in DOMAIN result) =>
        \A k \in DOMAIN result.reports :
            result.reports[k].matched_content
              = sentContent(result.reports[k].compared_submission_id)

\* the rows the run has added to plagiarism_reports
rowsOfRun ==
    {plagiarism_reports[k] : k \in (Len(reportsAtCall) + 1)..Len(plagiarism_reports)}

\* C26: when a run has returned, every report it returns is the report of a
\* row the run stored in plagiarism_reports: none is the report of an
\* insert that the store rejected or did not carry out.
C26_ReturnedReportsAreStored ==
    (pc = "done" /\ "matchedSegments" \in DOMAIN result) =>
        \A k \in DOMAIN result.reports :
            \E row \in rowsOfRun :
                /\ row.submission_id = args.submissionId
                /\ row.compared_submission_id
                     = result.reports[k].compared_submission_id
                /\ row.similarity_score = result.reports[k].similarity_score

-----------------------------------------------------------------------------
(* SpecEdit: check runs on submissions that their students go on editing   *)

\* two students have submitted the same text for the assignment of the form
EditTable ==
    [st \in Students |->
        [assignment_id |-> FormAssignment, student_id |-> st,
         content |-> SentA, status |-> "submitted", score |-> Null]]

InitEdit ==
    /\ submissions = EditTable
    /\ plagiarism_reports = <<>>
    /\ NoRun
    /\ fnIn = Null
    /\ fnOut = Null
    /\ fnPc = "unused"

NextEdit ==
    \/ Next
    \/ Return
    \/ \E st \in Students : OpenForm(st)
    \/ \E st \in Students : SaveForm(st)

SpecEdit == InitEdit /\ [][NextEdit]_vars

\* part_001 lines 48-75 read the segments of a stored report against the
\* content the submission has now: the segments whose offsets lie within
\* that content and whose text is the content between them
validSegment(segment, content) ==
    /\ 0 <= segment.startIndex
    /\ segment.startIndex < segment.endIndex
    /\ segment.endIndex <= Len(content)
    /\ SubSeq(content, segment.startIndex + 1, segment.endIndex) = segment.text

\* C27: in every state reached by student saves and check runs, every
\* segment of a stored report has 0 <= startIndex < endIndex <= length of
\* the content the checked submission has now, and that content between
\* the two offsets is the text of the segment.
C27_StoredOffsetsFitCurrentContent ==
    \A k \in DOMAIN plagiarism_reports :
        LET row == plagiarism_reports[k]
        IN  row.submission_id \in DOMAIN submissions =>
              \A i \in DOMAIN row.matched_content :
                  validSegment(row.matched_content[i],
                               submissions[row.submission_id].content)

-----------------------------------------------------------------------------
(* findMatchingSegments: where a matched sentence lies in the original text *)

\* the 0-based offsets at which the sentences that splitIntoSentences keeps
\* begin in the text, in order of appearance
sentenceStarts(text) ==
    LET kept == {i \in BlockStarts(text) :
                    Len(TrimmedBlock(text, i)) > MinSentenceLen}
        nth(k) == CHOOSE i \in kept : Cardinality({j \in kept : j < i}) = k - 1
        first(i) == MinOf({k \in i..BlockEnd(text, i) : text[k] \notin Whitespace})
    IN  [k \in 1..Cardinality(kept) |-> first(nth(k)) - 1]

\* C29: for every sentence of the original text that matches some compared
\* sentence at or above the threshold, findMatchingSegments returns a
\* segment that spans that sentence where it stands in the original text,
\* also when its text occurs earlier in the original text.
C29_SegmentAtOwnPosition ==
    fnPc = "matched" =>
      \E starts \in {sentenceStarts(fnIn.originalText)} :
        \A p \in matchingPairs :
          \E k \in DOMAIN fnOut.matches :
            /\ fnOut.matches[k].startIndex = starts[p[1]]
            /\ fnOut.matches[k].endIndex
                 = starts[p[1]] + Len(fnOut.originalSentences[p[1]])

\* a matched sentence is found where it stands when its text does not occur
\* earlier in the original text
SegmentAtOwnPositionOfFirstOccurrence ==
    fnPc = "matched" =>
      \E starts \in {sentenceStarts(fnIn.originalText)} :
        \A p \in matchingPairs :
          indexOf(fnIn.originalText, fnOut.originalSentences[p[1]]) = starts[p[1]]
            => \E k \in DOMAIN fnOut.matches :
                  /\ fnOut.matches[k].startIndex = starts[p[1]]
                  /\ fnOut.matches[k].endIndex
                       = starts[p[1]] + Len(fnOut.originalSentences[p[1]])

====
